---- MODULE Spec2Model ----
(***************************************************************************)
(* Refresh-and-reschedule pipeline of the prayer reminder app              *)
(* (src/app/index.tsx): clock-string utilities, the persisted state, the   *)
(* trigger scheduler with its session de-dup set and single-flight flag,   *)
(* the refresh orchestrator and its three entrypoints (background task,    *)
(* foreground initializer, manual refresh) plus the clear-all control.     *)
(*                                                                         *)
(* Strings the code parses are sequences of one-character strings.  Every  *)
(* await of an external call is a suspension point: the external effect    *)
(* (at the store or at the notification facility) is one step, and the     *)
(* synchronous code that resumes after it, up to the next external call,   *)
(* is another step, so other tasks may run in between.                     *)
(***************************************************************************)
EXTENDS Integers, Sequences, FiniteSets, Bags, TLC

\* ------------------------------------------------------------ bounds
\* Device-local calendar dates are 1..MaxDay (day 0 is "yesterday" of Init).
MaxDay == 2
\* Entrypoint invocations and midnights in one behaviour.
MaxEvents == 2
\* Longest clock string handed to cleanHHmm, the examples apart.
MaxLen == 5

\* ------------------------------------------------------------ constants
PRAYER_KEYS == <<"Fajr", "Dhuhr", "Asr", "Maghrib", "Isha">>

NumPrayers == Len(PRAYER_KEYS)

Names == {PRAYER_KEYS[i] : i \in 1..NumPrayers}

DefaultMethod == 20

DefaultSchool == 0

\* ------------------------------------------------------------ characters
DigitChars == <<"0", "1", "2", "3", "4", "5", "6", "7", "8", "9">>

Digits == {DigitChars[i] : i \in 1..10}

Letters == {"a", "b", "c", "W", "I", "B"}

\* \w of the regular expression: letters, digits (and underscore).
IsWord(c) == c \in Digits \cup Letters

DigitVal(c) == (CHOOSE i \in 1..10 : DigitChars[i] = c) - 1

\* ------------------------------------------------------------ cleanHHmm
\* The value a throwing call is modelled to yield.
Thrown == <<"throw">>

\* \b before position i (1..Len+1): exactly one side is a word character.
WordBoundary(s, i) ==
  LET before == (i > 1) /\ IsWord(s[i - 1])
      after == (i <= Len(s)) /\ IsWord(s[i])
  IN before # after

\* A faulty MatchesAt: the pattern without its two \b assertions.
MatchesAtAnywhere(s, i, hl) ==
  /\ i + hl + 2 <= Len(s)
  /\ \A j \in i..(i + hl - 1) : s[j] \in Digits
  /\ s[i + hl] = ":"
  /\ s[i + hl + 1] \in Digits
  /\ s[i + hl + 2] \in Digits

\* /\b(\d{1,2}):(\d{2})\b/ anchored at position i with an hour of hl digits.
MatchesAt(s, i, hl) ==
  /\ i + hl + 2 <= Len(s)
  /\ WordBoundary(s, i)
  /\ \A j \in i..(i + hl - 1) : s[j] \in Digits
  /\ s[i + hl] = ":"
  /\ s[i + hl + 1] \in Digits
  /\ s[i + hl + 2] \in Digits
  /\ WordBoundary(s, i + hl + 3)

\* Leftmost match, the greedy two-digit hour tried first.
FirstMatch(s) ==
  LET cands == {<<i, hl>> \in (1..Len(s)) \X {1, 2} : MatchesAt(s, i, hl)}
  IN IF cands = {} THEN <<0, 0>>
     ELSE CHOOSE c \in cands :
            \A d \in cands : c[1] < d[1] \/ (c[1] = d[1] /\ c[2] >= d[2])

padStart2(h) == IF Len(h) < 2 THEN <<"0">> \o h ELSE h

\* A field the response lacks (undefined): raw.match throws a TypeError.
Undefined == <<"undefined">>

cleanHHmm(raw) ==
  IF raw = Undefined THEN Thrown
  ELSE LET m == FirstMatch(raw)
           i == m[1]
           hl == m[2]
       IN IF i = 0 THEN Thrown
          ELSE padStart2(SubSeq(raw, i, i + hl - 1)) \o <<":">>
               \o SubSeq(raw, i + hl + 1, i + hl + 2)

\* ------------------------------------------------------------ parseHHmm
NaN == -1

\* The parts of s around its ":" characters, as String.split(":") gives them.
RECURSIVE Split(_)
Split(s) ==
  IF \A j \in 1..Len(s) : s[j] # ":" THEN <<s>>
  ELSE LET k == CHOOSE j \in 1..Len(s) :
                  s[j] = ":" /\ \A l \in 1..(j - 1) : s[l] # ":"
       IN <<SubSeq(s, 1, k - 1)>> \o Split(SubSeq(s, k + 1, Len(s)))

\* Number(part) for the strings met here: a digit string is its decimal
\* value, the empty string is 0, anything else is NaN.
RECURSIVE Number(_)
Number(part) ==
  IF part = <<>> THEN 0
  ELSE IF \E j \in 1..Len(part) : part[j] \notin Digits THEN NaN
  ELSE 10 * Number(SubSeq(part, 1, Len(part) - 1)) + DigitVal(part[Len(part)])

\* {hour, minute}, or Thrown when the code throws "Bad HH:mm".
parseHHmm(hhmm) ==
  LET parts == Split(hhmm)
      h == Number(parts[1])
      m == IF Len(parts) >= 2 THEN Number(parts[2]) ELSE 0
  IN IF h = NaN \/ m = NaN \/ h < 0 \/ h > 23 \/ m < 0 \/ m > 59
     THEN Thrown
     ELSE <<h, m>>

\* ------------------------------------------------------------ lookup responses
Chars2(a, b) == <<DigitChars[a + 1], DigitChars[b + 1]>>

\* The raw clock string "hh:mm" the lookup returns.
Raw(h, m) ==
  Chars2(h \div 10, h % 10) \o <<":">> \o Chars2(m \div 10, m % 10)

WibSuffix == <<" ", "(", "W", "I", "B", ")">>

ApiTz == "Asia/Jakarta"

TimingsA ==
  [n \in Names |->
     CASE n = "Fajr" -> Raw(4, 30)
       [] n = "Dhuhr" -> Raw(12, 0)
       [] n = "Asr" -> Raw(15, 15)
       [] n = "Maghrib" -> Raw(18, 0)
       [] n = "Isha" -> Raw(19, 10)]

\* Another place or method: an unpadded hour, a zone suffix, and two times
\* equal to those of TimingsA.
TimingsB ==
  [n \in Names |->
     CASE n = "Fajr" -> <<"4", ":", "3", "1">>
       [] n = "Dhuhr" -> Raw(12, 0)
       [] n = "Asr" -> Raw(15, 40) \o WibSuffix
       [] n = "Maghrib" -> Raw(18, 0)
       [] n = "Isha" -> Raw(19, 20)]

RespA == [code |-> 200, timings |-> TimingsA, tz |-> ApiTz]

RespB == [code |-> 200, timings |-> TimingsB, tz |-> ApiTz]

\* A well-formed clock string that names no time of day.
RespRange ==
  [code |-> 200, timings |-> [TimingsA EXCEPT !["Asr"] = Raw(24, 15)], tz |-> ApiTz]

RespNoMatch ==
  [code |-> 200, timings |-> [TimingsA EXCEPT !["Isha"] = <<"a", "b", "c">>],
   tz |-> ApiTz]

RespMissing ==
  [code |-> 200, timings |-> [TimingsA EXCEPT !["Maghrib"] = Undefined], tz |-> ApiTz]

Resp400 == [code |-> 400, timings |-> TimingsA, tz |-> ApiTz]

Responses == {RespA, RespB, RespRange, RespNoMatch, RespMissing, Resp400}

\* Device-local (hour, minute) readings of DateTime.now().
Clocks == {<<4, 30>>, <<9, 0>>}

\* ------------------------------------------------------------ state
Tasks == {"bg", "fg", "manual"}

VARIABLES
  today,          \* device-local calendar date (localDateISO, dateForApi)
  storage,        \* AsyncStorage "@prayer_state": {} or {StoredState}
  installed,      \* bag of the notifications the facility holds
  scheduledKeys,  \* __scheduledKeys
  isScheduling,   \* __isScheduling
  uiState,        \* React state of App, the fields the code reads back:
                  \* {} or {[method, school]}
  pc,             \* where each task is suspended
  idx,            \* index in PRAYER_KEYS of the prayer being scheduled
  st,             \* the StoredState a task works with: {} or {StoredState}
  listed,         \* scheduled.length as read by a task
  res,            \* what a task's run ended with
  path,           \* "refresh" or "install": the branch an entrypoint took
  calls,          \* per task, the calls of its current run, in order, with
                  \* "skipped" for a dropped installAll and "throw" for an
                  \* error reaching the entrypoint
  apiDate,        \* the date a task's refresh sent to the lookup
  args,           \* <<method, school>> a task's refresh was called with
  clearPc,        \* where clearSchedules is suspended
  events,         \* entrypoint invocations and midnights so far
  clock,          \* device-local <<hour, minute>> DateTime.now() reads
  raw,            \* a clock string handed to cleanHHmm
  cleaned         \* what cleanHHmm gave for raw, and then for its own result

envVars == <<today, storage, installed>>

memVars == <<scheduledKeys, isScheduling, uiState>>

taskVars == <<pc, idx, st, listed, res, path, calls, apiDate, args>>

restVars == <<clock, raw, cleaned>>

vars == <<today, storage, installed, scheduledKeys, isScheduling, uiState,
          pc, idx, st, listed, res, path, calls, apiDate, args, clearPc, events,
          clock, raw, cleaned>>

keyFor(tz, name, hhmm) == <<tz, name, hhmm>>

Daily(name, hour, minute) ==
  [type |-> "DAILY", name |-> name, hour |-> hour, minute |-> minute]

OneShot(name) ==
  [type |-> "TIME_INTERVAL", name |-> name, hour |-> -1, minute |-> -1]

\* The one element of a non-empty {} / {StoredState} cell.
The(cell) == CHOOSE s \in cell : TRUE

\* What manualRefresh reads back of a StoredState put in the React state.
Shown(cell) == {[method |-> s.method, school |-> s.school] : s \in cell}

\* A faulty MethodOf: the stored method is not passed on.
MethodOfDefault(cell) == DefaultMethod

\* stored?.method ?? 20 and stored?.school ?? 0
MethodOf(cell) == IF cell = {} THEN DefaultMethod ELSE The(cell).method

SchoolOf(cell) == IF cell = {} THEN DefaultSchool ELSE The(cell).school

\* A StoredState as refreshAndReschedule builds it.
MkState(date, method, school, timings, tz) ==
  [dateISO |-> date, method |-> method, school |-> school,
   timings |-> timings, tz |-> tz]

\* The five daily triggers a state's timings stand for.
TriggersOf(s) ==
  LET t(n) == parseHHmm(s.timings[n])
  IN SetToBag({Daily(n, t(n)[1], t(n)[2]) : n \in Names})

\* ------------------------------------------------------------ initial state
\* What an earlier process lifetime may have left behind: nothing, or a state
\* persisted by a refresh of yesterday (day 0) or of today, together with the
\* triggers that refresh installed.
InitStates ==
  {MkState(0, 3, 1, [n \in Names |-> cleanHHmm(TimingsB[n])], ApiTz),
   MkState(1, DefaultMethod, DefaultSchool,
           [n \in Names |-> cleanHHmm(TimingsA[n])], ApiTz)}

\* A process starts: module-level session state and no task running.
InitApp ==
  /\ scheduledKeys = {}
  /\ isScheduling = FALSE
  /\ uiState = {}
  /\ pc = [p \in Tasks |-> "idle"]
  /\ idx = [p \in Tasks |-> 0]
  /\ st = [p \in Tasks |-> {}]
  /\ listed = [p \in Tasks |-> 0]
  /\ res = [p \in Tasks |-> "none"]
  /\ path = [p \in Tasks |-> "none"]
  /\ calls = [p \in Tasks |-> <<>>]
  /\ apiDate = [p \in Tasks |-> 0]
  /\ args = [p \in Tasks |-> <<DefaultMethod, DefaultSchool>>]
  /\ clearPc = "idle"
  /\ events = 0

\* No clock string is being cleaned.
NoInput == raw = <<>> /\ cleaned = <<>>

Init ==
  /\ today = 1
  /\ clock \in Clocks
  /\ NoInput
  /\ \/ storage = {} /\ installed = EmptyBag
     \/ \E s \in InitStates : storage = {s} /\ installed = TriggersOf(s)
  /\ InitApp

\* ------------------------------------------------------------ task locals
Loc(p) ==
  [pc |-> pc[p], idx |-> idx[p], st |-> st[p], listed |-> listed[p],
   res |-> res[p], path |-> path[p], calls |-> calls[p],
   apiDate |-> apiDate[p], args |-> args[p]]

SetLoc(p, r) ==
  /\ pc' = [pc EXCEPT ![p] = r.pc]
  /\ idx' = [idx EXCEPT ![p] = r.idx]
  /\ st' = [st EXCEPT ![p] = r.st]
  /\ listed' = [listed EXCEPT ![p] = r.listed]
  /\ res' = [res EXCEPT ![p] = r.res]
  /\ path' = [path EXCEPT ![p] = r.path]
  /\ calls' = [calls EXCEPT ![p] = r.calls]
  /\ apiDate' = [apiDate EXCEPT ![p] = r.apiDate]
  /\ args' = [args EXCEPT ![p] = r.args]

\* A run ends: its locals are dropped; its result code, the branch it took
\* and the calls it made are kept.
EndRun(p, r, code) ==
  SetLoc(p, [r EXCEPT !.pc = "done", !.res = code, !.idx = 0,
                      !.listed = 0, !.st = {}, !.apiDate = 0,
                      !.args = <<DefaultMethod, DefaultSchool>>])

Ended(p, code) == EndRun(p, Loc(p), code)

\* What an entrypoint ends with when nothing threw.
Returned(p) == IF p = "bg" THEN "NewData" ELSE "ok"

\* A faulty Caught: the catch reports success.
CaughtAsReturned(p) == Returned(p)

\* What an entrypoint's catch ends with.
Caught(p) == IF p = "bg" THEN "Failed" ELSE "error"

\* The entrypoint's normal end: the background task returns NewData; the
\* foreground initializer and manualRefresh setState the refreshed state.
Succeed(p) ==
  /\ Ended(p, Returned(p))
  /\ uiState' = IF p # "bg" /\ path[p] = "refresh" THEN Shown(st[p]) ELSE uiState

\* A faulty Fail: the catch starts the refresh again.
FailThenRetry(p) ==
  /\ SetLoc(p, [Loc(p) EXCEPT !.pc = "loc", !.path = "refresh",
                              !.calls = Append(@, "location")])
  /\ UNCHANGED uiState

\* The entrypoint's catch: the background task returns Failed; the foreground
\* initializer sets err; manualRefresh alerts.
Fail(p) ==
  /\ EndRun(p, [Loc(p) EXCEPT !.calls = Append(@, "throw")], Caught(p))
  /\ UNCHANGED uiState

\* ------------------------------------------------------------ scheduleDailyPrayer
\* A faulty NextInstall: the __scheduledKeys check is left out.
RECURSIVE NextInstallNoDedup(_, _, _)
NextInstallNoDedup(s, i, keys) ==
  IF i > NumPrayers THEN [kind |-> "return", idx |-> 0]
  ELSE IF parseHHmm(s.timings[PRAYER_KEYS[i]]) = Thrown
    THEN [kind |-> "throw", idx |-> i]
    ELSE [kind |-> "install", idx |-> i]

\* The synchronous head of scheduleDailyPrayer for the prayers from index i
\* on: parseHHmm may throw, a key already in the de-dup set is skipped, and
\* the first prayer that is neither stops the walk at its install call.
RECURSIVE NextInstall(_, _, _)
NextInstall(s, i, keys) ==
  IF i > NumPrayers THEN [kind |-> "return", idx |-> 0]
  ELSE LET name == PRAYER_KEYS[i]
           hhmm == s.timings[name]
       IN IF parseHHmm(hhmm) = Thrown THEN [kind |-> "throw", idx |-> i]
          ELSE IF keyFor(s.tz, name, hhmm) \in keys
            THEN NextInstall(s, i + 1, keys)
            ELSE [kind |-> "install", idx |-> i]

\* A faulty Proceed: no finally, a throw leaves __isScheduling set.
ProceedNoFinally(p, i, keys) ==
  \E n \in {NextInstall(The(st[p]), i, keys)} :
     CASE n.kind = "install" ->
            /\ SetLoc(p, [Loc(p) EXCEPT !.pc = "install", !.idx = n.idx])
            /\ UNCHANGED <<isScheduling, uiState>>
       [] n.kind = "return" -> isScheduling' = FALSE /\ Succeed(p)
       [] n.kind = "throw" -> UNCHANGED isScheduling /\ Fail(p)

\* scheduleAllPrayers goes on with prayer i: it suspends in the next install
\* call, or leaves through finally (the flag is released) by return or throw.
Proceed(p, i, keys) ==
  \E n \in {NextInstall(The(st[p]), i, keys)} :
     CASE n.kind = "install" ->
            /\ SetLoc(p, [Loc(p) EXCEPT !.pc = "install", !.idx = n.idx])
            /\ UNCHANGED <<isScheduling, uiState>>
       [] n.kind = "return" -> isScheduling' = FALSE /\ Succeed(p)
       [] n.kind = "throw" -> isScheduling' = FALSE /\ Fail(p)

\* A faulty EnterInstallAll: no single-flight check.
EnterInstallAllUnguarded(p) ==
  /\ isScheduling' = TRUE
  /\ SetLoc(p, [Loc(p) EXCEPT !.pc = "channel",
                              !.calls = Append(@, "installAll")])
  /\ UNCHANGED uiState

\* The call of scheduleAllPrayers(state): dropped (and logged as skipped)
\* when a run is in flight, else the flag is taken and ensureNotifChannel is
\* awaited.
EnterInstallAll(p) ==
  IF isScheduling
    THEN /\ EndRun(p, [Loc(p) EXCEPT !.calls = Append(@, "skipped")],
                   Returned(p))
         /\ uiState' = IF p # "bg" /\ path[p] = "refresh" THEN Shown(st[p]) ELSE uiState
         /\ UNCHANGED isScheduling
    ELSE /\ isScheduling' = TRUE
         /\ SetLoc(p, [Loc(p) EXCEPT !.pc = "channel",
                                     !.calls = Append(@, "installAll")])
         /\ UNCHANGED uiState

\* await ensureNotifChannel() is over.
ChannelDone(p) ==
  /\ pc[p] = "channel"
  /\ \/ Proceed(p, 1, scheduledKeys)
     \/ isScheduling' = FALSE /\ Fail(p)
  /\ UNCHANGED <<envVars, scheduledKeys, clearPc, events, restVars>>

\* The trigger scheduleDailyPrayer asks the facility for.
TriggerFor(s, i) ==
  LET t == parseHHmm(s.timings[PRAYER_KEYS[i]])
  IN Daily(PRAYER_KEYS[i], t[1], t[2])

\* Notifications.scheduleNotificationAsync (DAILY) takes effect, or rejects.
InstallEffect(p) ==
  /\ pc[p] = "install"
  /\ \/ /\ installed' = installed (+) SetToBag({TriggerFor(The(st[p]), idx[p])})
        /\ SetLoc(p, [Loc(p) EXCEPT !.pc = "installed"])
        /\ UNCHANGED <<isScheduling, uiState>>
     \/ /\ isScheduling' = FALSE
        /\ Fail(p)
        /\ UNCHANGED installed
  /\ UNCHANGED <<today, storage, scheduledKeys, clearPc, events, restVars>>

\* A faulty InstallResume: only the hour of now is compared.
InstallResumeHourOnly(p) ==
  /\ pc[p] = "installed"
  /\ LET s == The(st[p])
         name == PRAYER_KEYS[idx[p]]
         hhmm == s.timings[name]
         keys == scheduledKeys \cup {keyFor(s.tz, name, hhmm)}
     IN /\ scheduledKeys' = keys
        /\ LET now == clock
           IN IF now[1] = parseHHmm(hhmm)[1]
                THEN /\ SetLoc(p, [Loc(p) EXCEPT !.pc = "oneshot"])
                     /\ UNCHANGED <<isScheduling, uiState>>
                ELSE Proceed(p, idx[p] + 1, keys)
  /\ UNCHANGED <<envVars, clearPc, events, restVars>>

\* After the install: the key is recorded; when now is the target minute a
\* one-shot is asked for, else the next prayer follows.
InstallResume(p) ==
  /\ pc[p] = "installed"
  /\ LET s == The(st[p])
         name == PRAYER_KEYS[idx[p]]
         hhmm == s.timings[name]
         keys == scheduledKeys \cup {keyFor(s.tz, name, hhmm)}
     IN /\ scheduledKeys' = keys
        /\ LET now == clock
           IN IF now = parseHHmm(hhmm)
                THEN /\ SetLoc(p, [Loc(p) EXCEPT !.pc = "oneshot"])
                     /\ UNCHANGED <<isScheduling, uiState>>
                ELSE Proceed(p, idx[p] + 1, keys)
  /\ UNCHANGED <<envVars, clearPc, events, restVars>>

\* Notifications.scheduleNotificationAsync (TIME_INTERVAL) takes effect, or
\* rejects.
OneShotEffect(p) ==
  /\ pc[p] = "oneshot"
  /\ \/ /\ installed' = installed (+) SetToBag({OneShot(PRAYER_KEYS[idx[p]])})
        /\ SetLoc(p, [Loc(p) EXCEPT !.pc = "oneshotted"])
        /\ UNCHANGED <<isScheduling, uiState>>
     \/ /\ isScheduling' = FALSE
        /\ Fail(p)
        /\ UNCHANGED installed
  /\ UNCHANGED <<today, storage, scheduledKeys, clearPc, events, restVars>>

OneShotResume(p) ==
  /\ pc[p] = "oneshotted"
  /\ Proceed(p, idx[p] + 1, scheduledKeys)
  /\ UNCHANGED <<envVars, scheduledKeys, clearPc, events, restVars>>

\* ------------------------------------------------------------ refreshAndReschedule
\* The call of refreshAndReschedule(method, school): the location fix is
\* asked for.
EnterRefresh(p, method, school) ==
  SetLoc(p, [Loc(p) EXCEPT !.pc = "loc", !.path = "refresh",
                           !.args = <<method, school>>,
                           !.calls = Append(@, "location")])

\* The location fix arrives (dateForApi() is read, the lookup is sent) or
\* fails.
LocationDone(p) ==
  /\ pc[p] = "loc"
  /\ \/ SetLoc(p, [Loc(p) EXCEPT !.pc = "fetch", !.apiDate = today,
                                 !.calls = Append(@, "lookup")])
     \/ Fail(p)
  /\ UNCHANGED <<envVars, memVars, clearPc, events, restVars>>

\* A faulty Wanted: json.code is not looked at.
WantedIgnoringCode(r) ==
  LET w == [n \in Names |-> cleanHHmm(r.timings[n])]
  IN IF \E n \in Names : w[n] = Thrown THEN Thrown ELSE w

\* fetchPrayerTimes on a response: the five cleaned timings, or Thrown.
Wanted(r) ==
  IF r.code # 200 THEN Thrown
  ELSE LET w == [n \in Names |-> cleanHHmm(r.timings[n])]
       IN IF \E n \in Names : w[n] = Thrown THEN Thrown ELSE w

\* The lookup answers or the transport fails; on success the state is built
\* with localDateISO() and saveState is called.
FetchDone(p) ==
  /\ pc[p] = "fetch"
  /\ \/ Fail(p)
     \/ \E r \in Responses :
          IF Wanted(r) = Thrown THEN Fail(p)
          ELSE SetLoc(p, [Loc(p) EXCEPT
                 !.pc = "save",
                 !.st = {MkState(today, args[p][1], args[p][2], Wanted(r), r.tz)},
                 !.calls = Append(@, "save")])
  /\ UNCHANGED <<envVars, memVars, clearPc, events, restVars>>

\* A faulty SaveEffect: scheduleAllPrayers is called right after saveState,
\* the cancel and the settle delay are left out.
SaveEffectThenInstall(p) ==
  /\ pc[p] = "save"
  /\ \/ /\ storage' = st[p]
        /\ EnterInstallAll(p)
     \/ Fail(p) /\ UNCHANGED <<storage, isScheduling>>
  /\ UNCHANGED <<today, installed, scheduledKeys, clearPc, events, restVars>>

\* AsyncStorage.setItem takes effect (cancelAllScheduledNotificationsAsync is
\* called next) or rejects.
SaveEffect(p) ==
  /\ pc[p] = "save"
  /\ \/ /\ storage' = st[p]
        /\ SetLoc(p, [Loc(p) EXCEPT !.pc = "cancel",
                                    !.calls = Append(@, "cancelAll")])
     \/ Fail(p) /\ UNCHANGED storage
  /\ UNCHANGED <<today, installed, memVars, clearPc, events, restVars>>

\* The facility cancels every notification, or rejects.
CancelEffect(p) ==
  /\ pc[p] = "cancel"
  /\ \/ /\ installed' = EmptyBag
        /\ SetLoc(p, [Loc(p) EXCEPT !.pc = "cancelled"])
     \/ Fail(p) /\ UNCHANGED installed
  /\ UNCHANGED <<today, storage, memVars, clearPc, events, restVars>>

\* After the cancel: __scheduledKeys.clear() and the 50 ms settle timer.
CancelResume(p) ==
  /\ pc[p] = "cancelled"
  /\ scheduledKeys' = {}
  /\ SetLoc(p, [Loc(p) EXCEPT !.pc = "settle"])
  /\ UNCHANGED <<envVars, isScheduling, uiState, clearPc, events, restVars>>

\* The settle timer fires: scheduleAllPrayers(state) is called.
SettleDone(p) ==
  /\ pc[p] = "settle"
  /\ EnterInstallAll(p)
  /\ UNCHANGED <<envVars, scheduledKeys, clearPc, events, restVars>>

\* ------------------------------------------------------------ entrypoints
\* A run of an entrypoint begins.  The foreground initializer runs once, on
\* mount; the background task and manualRefresh run again after they ended.
CanStart(p) ==
  /\ events < MaxEvents
  /\ pc[p] = "idle" \/ (p # "fg" /\ pc[p] = "done")

Fresh(p) ==
  [Loc(p) EXCEPT !.res = "none", !.path = "none", !.calls = <<>>]

\* TaskManager task PRAYER_TIMES_REFRESH is invoked: loadState() is called.
BgStart ==
  /\ CanStart("bg")
  /\ SetLoc("bg", [Fresh("bg") EXCEPT !.pc = "load", !.calls = <<"load">>])
  /\ events' = events + 1
  /\ UNCHANGED <<envVars, memVars, clearPc, restVars>>

\* App mounts: requestPermissions() is called.
FgStart ==
  /\ CanStart("fg")
  /\ SetLoc("fg", [Fresh("fg") EXCEPT !.pc = "perm"])
  /\ events' = events + 1
  /\ UNCHANGED <<envVars, memVars, clearPc, restVars>>

\* requestPermissions and ensureBackgroundTaskRegistered are over:
\* loadState() is called, or a permission was denied.
PermDone(p) ==
  /\ pc[p] = "perm"
  /\ \/ SetLoc(p, [Loc(p) EXCEPT !.pc = "load", !.calls = Append(@, "load")])
     \/ Fail(p)
  /\ UNCHANGED <<envVars, memVars, clearPc, events, restVars>>

\* The refresh button: refreshAndReschedule(state?.method ?? 20,
\* state?.school ?? 0).
ManualStart ==
  /\ CanStart("manual")
  /\ LET r == Fresh("manual")
     IN SetLoc("manual",
               [r EXCEPT !.pc = "loc", !.path = "refresh",
                         !.args = <<MethodOf(uiState), SchoolOf(uiState)>>,
                         !.calls = <<"location">>])
  /\ events' = events + 1
  /\ UNCHANGED <<envVars, memVars, clearPc, restVars>>

\* AsyncStorage.getItem is read, or rejects.
LoadEffect(p) ==
  /\ pc[p] = "load"
  /\ \/ SetLoc(p, [Loc(p) EXCEPT !.pc = "loaded", !.st = storage])
     \/ Fail(p)
  /\ UNCHANGED <<envVars, memVars, clearPc, events, restVars>>

\* A faulty IsStale: only an absent state counts as stale.
IsStaleAbsentOnly(stored, day) == stored = {}

\* !stored || stored.dateISO !== today
IsStale(stored, day) == stored = {} \/ The(stored).dateISO # day

\* After loadState: stale or absent state is refreshed; else the installed
\* notifications are listed (the foreground initializer first shows stored).
LoadResume(p) ==
  /\ pc[p] = "loaded"
  /\ IF IsStale(st[p], today)
       THEN /\ EnterRefresh(p, MethodOf(st[p]), SchoolOf(st[p]))
            /\ UNCHANGED uiState
       ELSE /\ SetLoc(p, [Loc(p) EXCEPT !.pc = "list", !.path = "install",
                                        !.calls = Append(@, "list")])
            /\ uiState' = IF p = "fg" THEN Shown(st[p]) ELSE uiState
  /\ UNCHANGED <<envVars, scheduledKeys, isScheduling, clearPc, events, restVars>>

\* getAllScheduledNotificationsAsync is read, or rejects.
ListEffect(p) ==
  /\ pc[p] = "list"
  /\ \/ SetLoc(p, [Loc(p) EXCEPT !.pc = "listed",
                                 !.listed = BagCardinality(installed)])
     \/ Fail(p)
  /\ UNCHANGED <<envVars, memVars, clearPc, events, restVars>>

\* A faulty ListResume: an empty list leads to a full refresh.
ListResumeRefreshes(p) ==
  /\ pc[p] = "listed"
  /\ IF listed[p] = 0
       THEN EnterRefresh(p, MethodOf(st[p]), SchoolOf(st[p]))
            /\ UNCHANGED <<isScheduling, uiState>>
       ELSE Succeed(p) /\ UNCHANGED isScheduling
  /\ UNCHANGED <<envVars, scheduledKeys, clearPc, events, restVars>>

\* scheduled.length === 0: scheduleAllPrayers(stored), else nothing to do.
ListResume(p) ==
  /\ pc[p] = "listed"
  /\ IF listed[p] = 0
       THEN EnterInstallAll(p)
       ELSE Succeed(p) /\ UNCHANGED isScheduling
  /\ UNCHANGED <<envVars, scheduledKeys, clearPc, events, restVars>>

\* ------------------------------------------------------------ clearSchedules
ClearStart ==
  /\ clearPc = "idle"
  /\ events < MaxEvents
  /\ clearPc' = "cancel"
  /\ events' = events + 1
  /\ UNCHANGED <<envVars, memVars, taskVars, restVars>>

\* The facility cancels every notification, or rejects (nothing catches it).
ClearCancelEffect ==
  /\ clearPc = "cancel"
  /\ \/ installed' = EmptyBag /\ clearPc' = "cancelled"
     \/ UNCHANGED installed /\ clearPc' = "idle"
  /\ UNCHANGED <<today, storage, memVars, taskVars, events, restVars>>

\* A faulty ClearResume: clearing also removes the persisted state.
ClearResumeRemovesState ==
  /\ clearPc = "cancelled"
  /\ scheduledKeys' = {}
  /\ storage' = {}
  /\ clearPc' = "idle"
  /\ UNCHANGED <<today, installed, isScheduling, uiState, taskVars, events,
                 restVars>>

\* __scheduledKeys.clear() and the alert.
ClearResume ==
  /\ clearPc = "cancelled"
  /\ scheduledKeys' = {}
  /\ clearPc' = "idle"
  /\ UNCHANGED <<envVars, isScheduling, uiState, taskVars, events, restVars>>

\* ------------------------------------------------------------ environment
\* Local midnight passes.
Midnight ==
  /\ today < MaxDay
  /\ events < MaxEvents
  /\ today' = today + 1
  /\ events' = events + 1
  /\ UNCHANGED <<storage, installed, memVars, taskVars, clearPc, restVars>>

\* The OS drops the notifications the facility holds.
OsPurge ==
  /\ installed # EmptyBag
  /\ installed' = EmptyBag
  /\ UNCHANGED <<today, storage, memVars, taskVars, clearPc, events, restVars>>

\* Time passes: DateTime.now() reads another hour and minute.
Tick ==
  /\ \E now \in Clocks \ {clock} : clock' = now
  /\ UNCHANGED <<today, storage, installed, memVars, taskVars, clearPc, events,
                 raw, cleaned>>

\* A one-shot notification is delivered and leaves the facility.
OneShotFires ==
  /\ \E t \in BagToSet(installed) :
       /\ t.type = "TIME_INTERVAL"
       /\ installed' = installed (-) SetToBag({t})
  /\ UNCHANGED <<today, storage, memVars, taskVars, clearPc, events, restVars>>

\* ------------------------------------------------------------ specification
TaskStep(p) ==
  \/ PermDone(p)
  \/ LoadEffect(p)
  \/ LoadResume(p)
  \/ ListEffect(p)
  \/ ListResume(p)
  \/ LocationDone(p)
  \/ FetchDone(p)
  \/ SaveEffect(p)
  \/ CancelEffect(p)
  \/ CancelResume(p)
  \/ SettleDone(p)
  \/ ChannelDone(p)
  \/ InstallEffect(p)
  \/ InstallResume(p)
  \/ OneShotEffect(p)
  \/ OneShotResume(p)

Next ==
  \/ BgStart
  \/ FgStart
  \/ ManualStart
  \/ \E p \in Tasks : TaskStep(p)
  \/ ClearStart
  \/ ClearCancelEffect
  \/ ClearResume
  \/ Midnight
  \/ OsPurge
  \/ OneShotFires
  \/ Tick

Spec == Init /\ [][Next]_vars

\* The entrypoints alone: no clearSchedules, no midnight, no purge.
TasksNext ==
  \/ BgStart
  \/ FgStart
  \/ ManualStart
  \/ \E p \in Tasks : TaskStep(p)
  \/ OneShotFires

SpecTasks == Init /\ [][TasksNext]_vars

\* One entrypoint at a time, and the OS purging between runs.
Quiet == clearPc = "idle" /\ \A p \in Tasks : pc[p] \in {"idle", "done"}

SeqBgStart == Quiet /\ BgStart

SeqFgStart == Quiet /\ FgStart

SeqManualStart == Quiet /\ ManualStart

QuietPurge == Quiet /\ OsPurge

SeqNext ==
  \/ SeqBgStart
  \/ SeqFgStart
  \/ SeqManualStart
  \/ \E p \in Tasks : TaskStep(p)
  \/ OneShotFires
  \/ QuietPurge

SpecSeq == Init /\ [][SeqNext]_vars

\* The background task in its own headless context (the app is not in the
\* foreground), where each external call it awaits returns or fails.
BgStep ==
  \/ LoadEffect("bg")
  \/ LoadResume("bg")
  \/ ListEffect("bg")
  \/ ListResume("bg")
  \/ LocationDone("bg")
  \/ FetchDone("bg")
  \/ SaveEffect("bg")
  \/ CancelEffect("bg")
  \/ CancelResume("bg")
  \/ SettleDone("bg")
  \/ ChannelDone("bg")
  \/ InstallEffect("bg")
  \/ InstallResume("bg")
  \/ OneShotEffect("bg")
  \/ OneShotResume("bg")

BgNext ==
  \/ BgStart
  \/ BgStep
  \/ Midnight
  \/ OsPurge
  \/ OneShotFires

SpecBg == Init /\ [][BgNext]_vars /\ WF_vars(BgStep)

\* installAll alone: today's state is persisted, nothing is installed, and
\* the background task and the foreground initializer find it so.
TodayStates ==
  {MkState(1, DefaultMethod, DefaultSchool,
           [n \in Names |-> cleanHHmm(r.timings[n])], r.tz) :
     r \in {RespA, RespB, RespRange}}

InitInstall ==
  /\ today = 1
  /\ clock \in Clocks
  /\ NoInput
  /\ \E s \in TodayStates : storage = {s}
  /\ installed = EmptyBag
  /\ InitApp

InstallStep(p) ==
  \/ PermDone(p)
  \/ LoadEffect(p)
  \/ LoadResume(p)
  \/ ListEffect(p)
  \/ ListResume(p)
  \/ ChannelDone(p)
  \/ InstallEffect(p)
  \/ InstallResume(p)
  \/ OneShotEffect(p)
  \/ OneShotResume(p)

InstallNext ==
  \/ BgStart
  \/ FgStart
  \/ \E p \in {"bg", "fg"} : InstallStep(p)
  \/ OneShotFires
  \/ Tick

SpecInstall == InitInstall /\ [][InstallNext]_vars

\* cleanHHmm alone, applied to a clock string and then to its own result.
ClockChars == {"0", "5", ":", "a", " "}

ExampleInputs ==
  {<<"0", "5", ":", "0", "3">>,
   <<"5", ":", "0", "3">>,
   Raw(23, 59) \o WibSuffix,
   <<"a", "b", "c">>}

RawInputs ==
  ExampleInputs \cup UNION {[1..n -> ClockChars] : n \in 0..MaxLen}

InitClean ==
  /\ today = 1
  /\ clock = <<9, 0>>
  /\ storage = {}
  /\ installed = EmptyBag
  /\ InitApp
  /\ raw \in RawInputs
  /\ cleaned = <<>>

CleanFirst ==
  /\ cleaned = <<>>
  /\ cleaned' = <<cleanHHmm(raw)>>
  /\ UNCHANGED <<envVars, memVars, taskVars, clearPc, events, clock, raw>>

CleanAgain ==
  /\ Len(cleaned) = 1
  /\ cleaned[1] # Thrown
  /\ cleaned' = Append(cleaned, cleanHHmm(cleaned[1]))
  /\ UNCHANGED <<envVars, memVars, taskVars, clearPc, events, clock, raw>>

CleanNext ==
  \/ CleanFirst
  \/ CleanAgain

SpecClean == InitClean /\ [][CleanNext]_vars

\* ------------------------------------------------------------ observations
\* The recurring (DAILY) triggers of a facility bag, and how many it holds
\* for a prayer name.
DailyOf(bag, name) ==
  {t \in BagToSet(bag) : t.type = "DAILY" /\ t.name = name}

RECURSIVE SumCopies(_, _)
SumCopies(bag, ts) ==
  IF ts = {} THEN 0
  ELSE LET t == CHOOSE x \in ts : TRUE
       IN CopiesIn(t, bag) + SumCopies(bag, ts \ {t})

DailyCount(bag, name) == SumCopies(bag, DailyOf(bag, name))

RecurringCount(bag) ==
  SumCopies(bag, {t \in BagToSet(bag) : t.type = "DAILY"})

OnePerName(bag) == \A n \in Names : DailyCount(bag, n) = 1

\* A step in which task p's call of refreshAndReschedule returns its state.
RefreshReturns(p) ==
  /\ path[p] = "refresh"
  /\ pc[p] # "done"
  /\ pc'[p] = "done"
  /\ res'[p] = Returned(p)

\* C1: at the moment a call of refreshAndReschedule returns successfully,
\* whatever entrypoint started it and whatever other refresh or installAll
\* calls overlap it, the facility holds exactly 5 recurring daily triggers
\* and the persisted state's dateISO is today's date.
C1_RefreshLeavesFiveForToday ==
  [][\A p \in Tasks :
       RefreshReturns(p) =>
         /\ RecurringCount(installed') = NumPrayers
         /\ storage' # {}
         /\ The(storage').dateISO = today']_vars

\* A step of task p (one of its locals changes).
StepOf(p) == Loc(p)' # Loc(p)

\* Both installAll callers of SpecInstall have returned, each having called
\* scheduleAllPrayers.
BothInstallAllReturned ==
  \A p \in {"bg", "fg"} :
    /\ pc[p] = "done"
    /\ res[p] = Returned(p)
    /\ \E k \in 1..Len(calls[p]) : calls[p][k] \in {"installAll", "skipped"}

\* C2: of two concurrent scheduleAllPrayers calls for the same state, started
\* with nothing installed and an empty de-dup set and with no cancelAll in
\* between, the one that finds __isScheduling set installs nothing, and once
\* both have returned the facility holds exactly 5 recurring triggers.
C2_SingleFlightInstallsFive ==
  [][/\ \A p \in {"bg", "fg"} :
          (pc[p] = "listed" /\ listed[p] = 0 /\ isScheduling /\ StepOf(p)) =>
            /\ pc'[p] = "done"
            /\ res'[p] = Returned(p)
            /\ installed' = installed
            /\ scheduledKeys' = scheduledKeys
     /\ BothInstallAllReturned' =>
          (RecurringCount(installed') = NumPrayers /\ OnePerName(installed'))
    ]_vars

\* Two overlapping calls have returned, one of them dropped by the flag.
C2_Witness ==
  /\ BothInstallAllReturned
  /\ \E p \in {"bg", "fg"} : calls[p][Len(calls[p])] = "skipped"
  /\ RecurringCount(installed) = NumPrayers

\* The triggers the facility holds agree with the persisted state: at most
\* one recurring trigger per prayer name, each at the persisted clock time.
NoDuplicateNoStale(bag, cell) ==
  /\ \A n \in Names : DailyCount(bag, n) <= 1
  /\ \A t \in BagToSet(bag) :
       t.type = "DAILY" =>
         /\ cell # {}
         /\ <<t.hour, t.minute>> = parseHHmm(The(cell).timings[t.name])

\* C3: after a refresh completes, for every interleaving of overlapping
\* refresh cycles, no prayer name has more than one recurring trigger and no
\* recurring trigger carries a clock time other than the persisted state's.
C3_RefreshLeavesNoStaleTrigger ==
  [][\A p \in Tasks :
       RefreshReturns(p) => NoDuplicateNoStale(installed', storage')]_vars

\* A step in which the installAll-only branch of an entrypoint, taken on an
\* empty list of installed notifications and not dropped, returns.
InstallOnlyReturns(p) ==
  /\ path[p] = "install"
  /\ pc[p] \in {"channel", "installed", "oneshotted"}
  /\ listed[p] = 0
  /\ pc'[p] = "done"
  /\ res'[p] = Returned(p)

\* C4: when the persisted dateISO is today and the facility reports no
\* installed notification (the OS purged them, also after this process
\* installed them), a run of the background task or of the foreground
\* initializer ends with one recurring trigger per prayer name installed.
C4_PurgedTriggersReinstalled ==
  [][\A p \in {"bg", "fg"} :
       InstallOnlyReturns(p) => OnePerName(installed')]_vars

\* The de-dup keys of a state's five prayers.
KeysOf(s) == {keyFor(s.tz, n, s.timings[n]) : n \in Names}

\* C5: scheduleAllPrayers called twice in sequence in one process with the
\* same state and no cancelAll in between leaves exactly one recurring
\* trigger per prayer name: the second call finds every key in
\* __scheduledKeys and installs nothing.
C5_InstallAllIdempotent ==
  [][\A p \in {"bg", "fg"} :
       /\ (pc[p] = "channel" /\ KeysOf(The(st[p])) \subseteq scheduledKeys
             /\ StepOf(p)) =>
            (pc'[p] = "done" /\ installed' = installed)
       /\ InstallOnlyReturns(p) =>
            (OnePerName(installed') /\ RecurringCount(installed') = NumPrayers)
    ]_vars

\* Two calls in sequence have returned: neither was dropped, and the second
\* one found all five keys.
C5_Witness ==
  /\ BothInstallAllReturned
  /\ \A p \in {"bg", "fg"} : calls[p][Len(calls[p])] = "installAll"
  /\ OnePerName(installed)
  /\ storage # {}
  /\ KeysOf(The(storage)) \subseteq scheduledKeys

Has(seq, x) == \E k \in 1..Len(seq) : seq[k] = x

\* Lookup responses fetchPrayerTimes must reject: an application status
\* code other than 200, a time field with no H:MM match, a missing field.
RejectedResponses == {Resp400, RespNoMatch, RespMissing}

\* What fetchPrayerTimes returns for the other responses.
AcceptedTimings == {Wanted(r) : r \in Responses \ RejectedResponses}

\* fetchPrayerTimes throws on each of them.
RejectedAllThrow == \A r \in RejectedResponses : Wanted(r) = Thrown

\* C6: when the location fix or fetchPrayerTimes fails (transport error,
\* status code other than 200, a time field with no H:MM match), the refresh
\* ends with an error and leaves the persisted state, the installed triggers
\* and the de-dup set as they were: saveState and cancelAll are not reached.
C6_FailedFetchChangesNothing ==
  [][/\ \A p \in Tasks :
          ((pc[p] \in {"loc", "fetch"} \/ pc'[p] = "loc") /\ StepOf(p)) =>
            /\ storage' = storage
            /\ installed' = installed
            /\ scheduledKeys' = scheduledKeys
     /\ \A p \in Tasks :
          (pc[p] \in {"loc", "fetch"} /\ pc'[p] = "done") =>
            /\ res'[p] = Caught(p)
            /\ ~Has(calls'[p], "save")
            /\ ~Has(calls'[p], "cancelAll")
     /\ \A p \in Tasks :
          (pc[p] = "fetch" /\ pc'[p] = "save") =>
            (RejectedAllThrow /\ The(st'[p]).timings \in AcceptedTimings)
    ]_vars

\* A refresh that failed in the lookup, with a state persisted before it.
C6_Witness ==
  \E p \in Tasks :
    /\ pc[p] = "done"
    /\ res[p] = Caught(p)
    /\ Len(calls[p]) >= 2
    /\ calls[p][Len(calls[p]) - 1] = "lookup"
    /\ calls[p][Len(calls[p])] = "throw"
    /\ storage # {}
    /\ installed # EmptyBag

\* ^\d{2}:\d{2}$ with hour in 0..23 and minute in 0..59.
ValidClock(v) ==
  /\ Len(v) = 5
  /\ v[3] = ":"
  /\ \A k \in {1, 2, 4, 5} : v[k] \in Digits
  /\ 10 * DigitVal(v[1]) + DigitVal(v[2]) <= 23
  /\ 10 * DigitVal(v[4]) + DigitVal(v[5]) <= 59

\* C7: the persisted timings always hold exactly the five prayer names, each
\* a two-digit-hour, two-digit-minute clock string with hour in 0..23 and
\* minute in 0..59.
C7_PersistedTimingsValid ==
  storage # {} =>
    /\ DOMAIN The(storage).timings = Names
    /\ \A n \in Names : ValidClock(The(storage).timings[n])

IsPrefix(a, b) == Len(a) <= Len(b) /\ a = SubSeq(b, 1, Len(a))

\* The calls of an entrypoint run, in order, up to its refresh pipeline.
RefreshCalls(p) ==
  (IF p = "manual" THEN <<>> ELSE <<"load">>)
    \o <<"location", "lookup", "save", "cancelAll">>

RefreshOrder(p) ==
  \/ IsPrefix(calls[p], RefreshCalls(p))
  \/ \E last \in {"installAll", "skipped", "throw"} :
       /\ IsPrefix(calls[p], Append(RefreshCalls(p), last))
  \/ calls[p] = RefreshCalls(p) \o <<"installAll", "throw">>
  \/ \E k \in 0..Len(RefreshCalls(p)) :
       calls[p] = Append(SubSeq(RefreshCalls(p), 1, k), "throw")

\* C8: when the persisted state is absent or its dateISO is not today, a run
\* of the background task or of the foreground initializer takes the full
\* refresh pipeline (location, lookup, save, cancelAll, installAll in that
\* order), never the installAll-only branch, whatever is installed.
C8_StaleStateRefreshes ==
  [][\A p \in {"bg", "fg"} :
       /\ (pc[p] = "loaded" /\ StepOf(p)
             /\ (st[p] = {} \/ The(st[p]).dateISO # today)) =>
            /\ pc'[p] = "loc"
            /\ path'[p] = "refresh"
            /\ calls'[p] = <<"load", "location">>
       /\ (path[p] = "refresh" /\ StepOf(p) /\ pc'[p] \notin {"load", "perm"}) =>
            (path'[p] = "refresh" /\ ~Has(calls'[p], "list"))
       /\ path'[p] = "refresh" => RefreshOrder(p)'
    ]_vars

\* A stale state led the background task through the whole pipeline while
\* triggers were installed when it started.
C8_Witness ==
  /\ path["bg"] = "refresh"
  /\ pc["bg"] = "done"
  /\ res["bg"] = "NewData"
  /\ calls["bg"] = <<"load", "location", "lookup", "save", "cancelAll", "installAll">>
  /\ OnePerName(installed)

C10_BackgroundReportsFailure ==
  pc["bg"] = "done" =>
    /\ res["bg"] \in {"NewData", "Failed"}
    /\ res["bg"] = "Failed" <=> Has(calls["bg"], "throw")

\* installAll threw part-way in a background run, which ended Failed.
C10_Witness ==
  /\ pc["bg"] = "done"
  /\ res["bg"] = "Failed"
  /\ calls["bg"] = <<"load", "list", "installAll", "throw">>
  /\ installed # EmptyBag

\* The suspension points of scheduleAllPrayers, from the channel await on.
InstallAllPcs == {"channel", "install", "installed", "oneshot", "oneshotted"}

\* C11: within one refresh cycle the facility's cancel-all has completed,
\* the de-dup set has been cleared and the settle delay has elapsed before
\* the cycle's scheduleAllPrayers asks for its first trigger: a refresh
\* enters scheduleAllPrayers only from the settle delay, the settle delay
\* only from the completed cancel with the de-dup set emptied, the completed
\* cancel only from the cancel call with the facility emptied, and it asks
\* for a trigger only inside scheduleAllPrayers.
C11_CancelBeforeInstall ==
  [][\A p \in Tasks :
       (path'[p] = "refresh" /\ StepOf(p)) =>
         /\ pc'[p] = "cancelled" => (pc[p] = "cancel" /\ installed' = EmptyBag)
         /\ pc'[p] = "settle" => (pc[p] = "cancelled" /\ scheduledKeys' = {})
         /\ pc'[p] = "channel" => pc[p] = "settle"
         /\ pc'[p] \in InstallAllPcs \ {"channel"} => pc[p] \in InstallAllPcs
         /\ pc'[p] \in InstallAllPcs =>
              /\ Len(calls'[p]) >= 2
              /\ calls'[p][Len(calls'[p]) - 1] = "cancelAll"
              /\ calls'[p][Len(calls'[p])] = "installAll"
         /\ (installed' # installed /\ pc[p] \in {"install", "oneshot"}) =>
              Has(calls[p], "cancelAll")
    ]_vars

\* A refresh cycle's first trigger has just been installed, after its cancel.
C11_Witness ==
  \E p \in Tasks :
    /\ path[p] = "refresh"
    /\ pc[p] = "installed"
    /\ idx[p] = 1
    /\ calls[p][Len(calls[p])] = "installAll"
    /\ BagCardinality(installed) = 1

\* The tasks inside scheduleAllPrayers, holding the single-flight flag.
Holders == {p \in Tasks : pc[p] \in InstallAllPcs}

\* Task p is about to call scheduleAllPrayers.
CallsInstallAll(p) ==
  pc[p] = "settle" \/ (pc[p] = "listed" /\ listed[p] = 0)

LastCall(p) == IF calls[p] = <<>> THEN "none" ELSE calls[p][Len(calls[p])]

\* C12: __isScheduling never stays set after its holder ends: it is set
\* exactly while one task is inside scheduleAllPrayers, also after that
\* task returned or threw part-way (parse or facility error), so a call of
\* scheduleAllPrayers made afterwards is not dropped; a call dropped by the
\* flag ends at once, is not queued and installs nothing later.
C12_GuardReleased ==
  [][/\ (isScheduling <=> Holders # {})'
     /\ Cardinality(Holders') <= 1
     /\ \A p \in Tasks :
          /\ (CallsInstallAll(p) /\ StepOf(p) /\ ~isScheduling) =>
               (pc'[p] = "channel" /\ isScheduling' /\ LastCall(p)' = "installAll")
          /\ (CallsInstallAll(p) /\ StepOf(p) /\ isScheduling) =>
               /\ pc'[p] = "done"
               /\ LastCall(p)' = "skipped"
               /\ installed' = installed
               /\ isScheduling'
          /\ LastCall(p)' = "skipped" => pc'[p] = "done"
    ]_vars

\* A holder threw part-way through the five prayers, and a call made after
\* it ended took the flag.
C12_Witness ==
  \E p, q \in Tasks :
    /\ p # q
    /\ pc[p] = "done"
    /\ Len(calls[p]) >= 2
    /\ calls[p][Len(calls[p]) - 1] = "installAll"
    /\ LastCall(p) = "throw"
    /\ installed # EmptyBag
    /\ pc[q] = "channel"
    /\ isScheduling

\* C13: the persisted record is written only by refreshAndReschedule and
\* is never deleted: it changes only in the saveState step of a task on the
\* refresh path, to the state that refresh built; clearSchedules,
\* scheduleAllPrayers / scheduleDailyPrayer and the entrypoint branches that
\* do not refresh leave it as it is.
C13_StateWrittenOnlyByRefresh ==
  [][/\ storage # {} => storage' # {}
     /\ storage' # storage =>
          \E p \in Tasks :
            /\ path[p] = "refresh"
            /\ pc[p] = "save"
            /\ pc'[p] = "cancel"
            /\ st[p] # {}
            /\ storage' = st[p]
     /\ clearPc' # clearPc => storage' = storage
     /\ \A p \in Tasks :
          (StepOf(p) /\ (path'[p] = "install" \/ pc[p] \in InstallAllPcs)) =>
            storage' = storage
    ]_vars

\* clearSchedules has emptied the facility and the de-dup set while a state
\* was persisted, and an installAll-only run has installed from that state.
C13_Witness ==
  /\ clearPc = "cancelled"
  /\ installed = EmptyBag
  /\ storage # {}
  /\ \E p \in Tasks : path[p] = "install" /\ pc[p] = "done"
                        /\ LastCall(p) = "installAll"

\* Position i of s starts an H:MM (hl = 1) or HH:MM (hl = 2) substring.
IsClockAt(s, i, hl) ==
  /\ i + hl + 2 <= Len(s)
  /\ \A j \in (i..(i + hl - 1)) \cup {i + hl + 1, i + hl + 2} : s[j] \in Digits
  /\ s[i + hl] = ":"

\* The n characters from position i stand on their own: no letter or digit
\* touches them on either side.
StandsAlone(s, i, n) ==
  /\ i = 1 \/ ~IsWord(s[i - 1])
  /\ i + n > Len(s) \/ ~IsWord(s[i + n])

\* The leftmost of a set of <<position, hour length>> candidates, with the
\* hour padded to two digits; Thrown when there is none.
PaddedFirst(s, cands) ==
  IF cands = {} THEN Thrown
  ELSE LET c == CHOOSE x \in cands : \A y \in cands : x[1] <= y[1]
           h == SubSeq(s, c[1], c[1] + c[2] - 1)
       IN (IF c[2] = 1 THEN <<"0">> ELSE <<>>) \o h \o <<":">>
            \o SubSeq(s, c[1] + c[2] + 1, c[1] + c[2] + 2)

AnySubstring(s) ==
  {c \in (1..Len(s)) \X {1, 2} : IsClockAt(s, c[1], c[2])}

AloneSubstring(s) ==
  {c \in AnySubstring(s) : StandsAlone(s, c[1], c[2] + 3)}

ExampleResults ==
  {<<<<"0", "5", ":", "0", "3">>, <<"0", "5", ":", "0", "3">>>>,
   <<<<"5", ":", "0", "3">>, <<"0", "5", ":", "0", "3">>>>,
   <<Raw(23, 59) \o WibSuffix, Raw(23, 59)>>,
   <<<<"a", "b", "c">>, Thrown>>}

\* C14 as stated: cleanHHmm returns the first H:MM or HH:MM substring of its
\* input with the hour zero-padded to two digits and fails when the input
\* has no such substring; "05:03" gives "05:03", "5:03" gives "05:03",
\* "23:59 (WIB)" gives "23:59", "abc" fails; applied to its own result it
\* returns that result unchanged.
C14_CleanFirstSubstring ==
  cleaned # <<>> =>
    /\ cleaned[1] = PaddedFirst(raw, AnySubstring(raw))
    /\ \A e \in ExampleResults : raw = e[1] => cleaned[1] = e[2]
    /\ Len(cleaned) = 2 => cleaned[2] = cleaned[1]

\* C14 amended: cleanHHmm returns the first H:MM or HH:MM substring that
\* stands on its own (no letter, digit or underscore next to it on either
\* side) with the hour zero-padded to two digits, and fails when the input
\* has no such substring; the four examples and the fixed point as stated.
C14_CleanFirstStandaloneSubstring ==
  cleaned # <<>> =>
    /\ cleaned[1] = PaddedFirst(raw, AloneSubstring(raw))
    /\ \A e \in ExampleResults : raw = e[1] => cleaned[1] = e[2]
    /\ Len(cleaned) = 2 => cleaned[2] = cleaned[1]

\* "23:59 (WIB)" was cleaned to "23:59", and that again to "23:59".
C14_Witness ==
  /\ raw = Raw(23, 59) \o WibSuffix
  /\ cleaned = <<Raw(23, 59), Raw(23, 59)>>

\* A recurring trigger's composite identity is in the de-dup set.
HasKey(t, keys) ==
  \E k \in keys : k[2] = t.name /\ parseHHmm(k[3]) = <<t.hour, t.minute>>

\* The trigger a de-dup identity stands for is installed.
IsInstalled(k, bag) ==
  \E t \in BagToSet(bag) :
    t.type = "DAILY" /\ t.name = k[2] /\ <<t.hour, t.minute>> = parseHHmm(k[3])

KeysMatchFacility(bag, keys) ==
  /\ \A t \in BagToSet(bag) : t.type = "DAILY" => HasKey(t, keys)
  /\ \A k \in keys : IsInstalled(k, bag)

\* C15: when cancelAll completes (cancelAllScheduledNotificationsAsync
\* awaited and __scheduledKeys cleared), in a refresh cycle or in
\* clearSchedules and whatever scheduleAllPrayers run is in flight, the
\* facility holds no recurring trigger whose identity is missing from the
\* de-dup set and the de-dup set holds no identity whose trigger is not
\* installed.
C15_CancelAndClearTogether ==
  [][/\ \A p \in Tasks :
          (pc[p] = "cancelled" /\ pc'[p] = "settle") =>
            KeysMatchFacility(installed', scheduledKeys')
     /\ (clearPc = "cancelled" /\ clearPc' = "idle") =>
          KeysMatchFacility(installed', scheduledKeys')
    ]_vars

\* The one-shot (TIME_INTERVAL) notifications a facility bag holds.
OneShotCount(bag) ==
  SumCopies(bag, {t \in BagToSet(bag) : t.type = "TIME_INTERVAL"})

\* The hour and minute of the prayer task p is scheduling.
Target(p) == parseHHmm(The(st[p]).timings[PRAYER_KEYS[idx[p]]])

\* C16: when scheduleDailyPrayer has registered a recurring trigger and the
\* device-local hour and minute it then reads equal the target's, it asks
\* for an immediate one-shot, of which the facility, unless it rejects the
\* request, installs exactly one; when the hour or the minute differ it
\* asks for none; a prayer skipped by the de-dup set gets none: one-shots
\* enter the facility in no other way.
C16_OneShotOnSameMinute ==
  [][/\ \A p \in Tasks :
          /\ (pc[p] = "installed" /\ StepOf(p)) =>
               /\ pc'[p] = "oneshot" <=> clock = Target(p)
               /\ pc'[p] = "oneshot" => idx'[p] = idx[p]
               /\ installed' = installed
          /\ (pc[p] = "oneshot" /\ pc'[p] = "oneshotted") =>
               /\ installed' = installed (+) SetToBag({OneShot(PRAYER_KEYS[idx[p]])})
               /\ OneShotCount(installed') = OneShotCount(installed) + 1
          /\ pc'[p] = "oneshot" => pc[p] \in {"installed", "oneshot"}
     /\ OneShotCount(installed') > OneShotCount(installed) =>
          \E p \in Tasks : pc[p] = "oneshot" /\ pc'[p] = "oneshotted"
    ]_vars

\* Fajr at 04:30 was registered at 04:30 and its one-shot installed.
C16_Witness ==
  \E p \in Tasks :
    /\ pc[p] = "oneshotted"
    /\ idx[p] = 1
    /\ CopiesIn(Daily("Fajr", 4, 30), installed) = 1
    /\ CopiesIn(OneShot("Fajr"), installed) = 1

\* <<method, school>> of a {} / {StoredState} cell, the defaults for {}.
Settings(cell) ==
  IF cell = {} THEN <<DefaultMethod, DefaultSchool>>
  ELSE <<The(cell).method, The(cell).school>>

\* The background task or the foreground initializer calls
\* refreshAndReschedule with the settings of the state it loaded.
RefreshWithLoadedSettings(p) ==
  (pc[p] = "loaded" /\ pc'[p] = "loc") => args'[p] = Settings(st[p])

Count(seq, x) == Cardinality({k \in 1..Len(seq) : seq[k] = x})

\* A run of the background task is under way.
BgRunning == pc["bg"] \notin {"idle", "done"}

\* C18: every run of the background task ends, given that each external
\* call returns or fails, and a run issues at most one location request and
\* at most one lookup request: nothing is retried after a failure.
C18_BackgroundRunEnds ==
  /\ [](Count(calls["bg"], "location") <= 1 /\ Count(calls["bg"], "lookup") <= 1)
  /\ [][(BgRunning /\ Has(calls["bg"], "throw")') => pc'["bg"] = "done"]_vars
  /\ (BgRunning ~> pc["bg"] = "done")

\* A background run whose lookup failed has ended, Failed, with one location
\* request and one lookup request made.
C18_Witness ==
  /\ pc["bg"] = "done"
  /\ res["bg"] = "Failed"
  /\ calls["bg"] = <<"load", "location", "lookup", "throw">>

\* C19: the dateISO a refresh persists equals the date the same refresh
\* sent to the lookup (dateForApi() at the request), so the times saved
\* under a date are the times fetched for that date, also when local
\* midnight passes while the lookup is in flight.
C19_PersistedDateIsLookupDate ==
  [][\A p \in Tasks :
       (pc[p] = "save" /\ pc'[p] = "cancel") =>
         (storage' # {} /\ The(storage').dateISO = apiDate[p])
    ]_vars

\* Task p's refresh persisted its state and cancelled all triggers, and its
\* scheduleAllPrayers call then threw.
FailedInInstallAll(p) ==
  /\ pc[p] = "done"
  /\ path[p] = "refresh"
  /\ res[p] = Caught(p)
  /\ Len(calls[p]) >= 3
  /\ SubSeq(calls[p], Len(calls[p]) - 2, Len(calls[p]))
       = <<"cancelAll", "installAll", "throw">>

\* C20: after a refresh failed in scheduleAllPrayers with its state persisted
\* (cancelAll done, between 0 and 4 of the five triggers installed), the
\* next run of the foreground initializer or of the background task on the
\* same day, with the facility accepting installs, ends with one recurring
\* trigger installed for each of the five prayer names.
C20_NextRunCompletesInstall ==
  [][\A q \in {"bg", "fg"} :
       (/\ \E p \in Tasks \ {q} : FailedInInstallAll(p)
        /\ storage # {}
        /\ The(storage).dateISO = today
        /\ pc[q] \notin {"idle", "done"}
        /\ pc'[q] = "done"
        /\ res'[q] = Returned(q)) =>
         OnePerName(installed')
    ]_vars

====
